---------------------------- MODULE Spec2Model ----------------------------
(***************************************************************************)
(* Organization mutations of the saas starter kit                          *)
(* (src/starterkits/saas/src/server/actions/organization/mutations.ts).    *)
(*                                                                         *)
(* The state is the three tables the mutations touch plus, for every       *)
(* request handler in flight, its position and its local values.  Every    *)
(* `await` on the database is one atomic step; what a handler does         *)
(* between two awaits (zod parsing, the authorization branch) belongs to   *)
(* the step of the preceding await.                                        *)
(***************************************************************************)
EXTENDS Naturals, Sequences, FiniteSets, TLC

(* ------------------------------ bounds -------------------------------- *)

NumUsers == 2
MaxOrgs  == 2
MaxReqs  == 2

Users  == 1..NumUsers
OrgIds == 1..MaxOrgs
ReqIds == 1..MaxReqs

\* The handler slots; Spec runs one handler at a time in slot 1.
Procs == {1}

(* ------------------------------ inputs -------------------------------- *)

MinNameLen == 3
MaxNameLen == 50

Name2  == "ab"
Name3  == "abc"
Name50 == "aaaaaaaaaabbbbbbbbbbccccccccccddddddddddeeeeeeeeee"
Name51 == "aaaaaaaaaabbbbbbbbbbccccccccccddddddddddeeeeeeeeeef"
Names  == {Name2, Name3, Name50, Name51}

\* An image string, by what URL parsing sees of it: its scheme and the rest.
Images == { [scheme |-> "https", rest |-> "//cdn.io/a.png"],
            [scheme |-> "https", rest |-> "//cdn.io/b.png"],
            [scheme |-> "",      rest |-> "logo.png"] }

Roles      == {"Admin", "Member"}
RoleInputs == Roles \cup {"Root"}

\* 0 stands for an id the client left out (undefined where a string is due).
NoId          == 0
OrgIdInputs   == {NoId} \cup OrgIds
ReqIdInputs   == {NoId} \cup ReqIds
UserIdInputs  == {NoId} \cup Users

(* ------------------------------ state --------------------------------- *)

VARIABLES organizations,            \* rows [id, ownerId, name, image]
          membersToOrganizations,   \* rows [memberId, organizationId, role]
          orgRequests,              \* rows [id, userId, organizationId]
          nextOrgId,                \* ids the store has handed out so far
          nextReqId,
          proc                      \* handler slot -> position and locals

store == <<organizations, membersToOrganizations, orgRequests,
           nextOrgId, nextReqId>>
vars  == <<organizations, membersToOrganizations, orgRequests,
           nextOrgId, nextReqId, proc>>

NoOrg     == [id |-> NoId, ownerId |-> NoId]
NoRequest == [id |-> NoId, userId |-> NoId, organizationId |-> NoId]
NoArgs    == [none |-> TRUE]

Idle == [pc |-> "idle", op |-> "none", user |-> NoId, args |-> NoArgs,
         currentOrg |-> NoOrg, createOrg |-> NoOrg, request |-> NoRequest,
         result |-> "none"]

CanBegin(p) == proc[p].pc = "idle"

InFlight(p) == proc[p].pc \notin {"idle", "done"}

\* The handler's locals at its start.
Call(op, u, args, org) ==
    [pc |-> "begin", op |-> op, user |-> u, args |-> args,
     currentOrg |-> org, createOrg |-> NoOrg, request |-> NoRequest,
     result |-> "none"]

Goto(r, pc) == [r EXCEPT !.pc = pc]

\* The handler returns (result "ok") or throws: "ValidationError",
\* "NotAuthorized", "NotFound", or what the store threw, "ConstraintViolation"
\* (a foreign key, a unique pair) or "StoreFailure" (the call did not go
\* through).
Finish(r, result) == [r EXCEPT !.pc = "done", !.result = result]

IsStoreFailure(result) == result \in {"StoreFailure", "ConstraintViolation"}

(* ------------------------- validation (zod) --------------------------- *)

\* mutant: the two limits are exclusive
NameOk_Exclusive(name) == Len(name) > MinNameLen /\ Len(name) < MaxNameLen

NameOk(name) == Len(name) >= MinNameLen /\ Len(name) <= MaxNameLen

UrlOk(image) == image.scheme # ""

IdOk(id) == id # NoId

createOrgSchema(name, image) == NameOk(name) /\ UrlOk(image)

updateOrgNameSchema(name) == NameOk(name)

updateOrgImageSchema(image) == UrlOk(image)

orgRequestSchema(orgId, userId) == IdOk(orgId) /\ IdOk(userId)

acceptOrgRequestSchema(requestId) == IdOk(requestId)

declineOrgRequestSchema(requestId) == IdOk(requestId)

updateMemberRoleSchema(memberId, role) == IdOk(memberId) /\ role \in Roles

removeUserSchema(userId) == IdOk(userId)

(* ------------------------ the persistence store ----------------------- *)

DefaultRole == "Member"

OrgExists(orgs, id) == \E o \in orgs : o.id = id

\* mutant: the table has no unique (organization, member) pair
MemberInsertAllowed_NoUniquePair(orgs, m2o, memberId, orgId) ==
    OrgExists(orgs, orgId)

\* insert into membersToOrganizations: the row references an organization
\* and the pair (organization, member) is unique.
MemberInsertAllowed(orgs, m2o, memberId, orgId) ==
    /\ OrgExists(orgs, orgId)
    /\ ~\E m \in m2o : m.memberId = memberId /\ m.organizationId = orgId

\* insert into orgRequests: the row references an organization.
RequestInsertAllowed(orgs, orgId) == OrgExists(orgs, orgId)

\* the pair (organization, user) is unique among requests.
RequestConflict(reqs, orgId, userId) ==
    \E r \in reqs : r.organizationId = orgId /\ r.userId = userId

\* delete from organizations cascades to both other tables.
CascadeMembers(m2o, orgId) == {m \in m2o : m.organizationId # orgId}

CascadeRequests(reqs, orgId) == {r \in reqs : r.organizationId # orgId}

\* getOrganizations(): the caller's current organization, one of the rows.
CurrentOrgs(orgs) == {[id |-> o.id, ownerId |-> o.ownerId] : o \in orgs}

(* --------------------------- authorization ---------------------------- *)

\* findFirst(memberId = user, organizationId = currentOrg, role = Admin)
memToOrg(m2o, userId, orgId) ==
    \E m \in m2o : /\ m.memberId = userId
                   /\ m.organizationId = orgId
                   /\ m.role = "Admin"

IsOwner(org, userId) == org.ownerId = userId


\* if (currentOrg.ownerId === user.id || memToOrg)
updateOrgNameAllowed(org, userId, m2o) ==
    IsOwner(org, userId) \/ memToOrg(m2o, userId, org.id)

updateOrgImageAllowed(org, userId, m2o) ==
    IsOwner(org, userId) \/ memToOrg(m2o, userId, org.id)

\* if (currentOrg.ownerId !== user.id) throw
deleteOrgAllowed(org, userId) == IsOwner(org, userId)

acceptOrgRequestAllowed(org, userId, m2o) ==
    IsOwner(org, userId) \/ memToOrg(m2o, userId, org.id)

declineOrgRequestAllowed(org, userId, m2o) ==
    IsOwner(org, userId) \/ memToOrg(m2o, userId, org.id)

\* mutant: the owner test for a promotion is left out
updateMemberRoleAllowed_NoOwnerTest(org, userId, m2o, role) ==
    IsOwner(org, userId) \/ memToOrg(m2o, userId, org.id)

\* role === "Admin" && ownerId !== user.id throws first, then the usual test
updateMemberRoleAllowed(org, userId, m2o, role) ==
    /\ ~(role = "Admin" /\ ~IsOwner(org, userId))
    /\ (IsOwner(org, userId) \/ memToOrg(m2o, userId, org.id))

\* mutant: the findFirst lacks its role filter, any member passes
removeUserAllowed_AnyRole(org, userId, m2o) ==
    \/ IsOwner(org, userId)
    \/ \E m \in m2o : m.memberId = userId /\ m.organizationId = org.id

removeUserAllowed(org, userId, m2o) ==
    IsOwner(org, userId) \/ memToOrg(m2o, userId, org.id)

(* ------------------------------- Init --------------------------------- *)

Init ==
    /\ organizations = {}
    /\ membersToOrganizations = {}
    /\ orgRequests = {}
    /\ nextOrgId = 1
    /\ nextReqId = 1
    /\ proc = [p \in Procs |-> Idle]

(* ------------------------- createOrgMutation -------------------------- *)

\* the organization ids this handler or another in flight will still draw
PendingOrgInserts ==
    Cardinality({q \in DOMAIN proc : proc[q].pc = "createOrg_insertOrg"})

createOrgMutation(p, u, name, image) ==
    /\ CanBegin(p)
    /\ nextOrgId + PendingOrgInserts <= MaxOrgs
    /\ LET c == Call("createOrg", u, [name |-> name, image |-> image], NoOrg)
       IN  proc' = [proc EXCEPT ![p] =
               IF createOrgSchema(name, image)
               THEN Goto(c, "createOrg_insertOrg")
               ELSE Finish(c, "ValidationError")]
    /\ UNCHANGED store

\* db.insert(organizations).values(...).returning()
createOrgInsertOrg(p) ==
    /\ proc[p].pc = "createOrg_insertOrg"
    /\ LET row == [id |-> nextOrgId, ownerId |-> proc[p].user,
                   name |-> proc[p].args.name, image |-> proc[p].args.image]
       IN  /\ organizations' = organizations \cup {row}
           /\ nextOrgId' = nextOrgId + 1
           /\ proc' = [proc EXCEPT ![p] =
                  [Goto(proc[p], "createOrg_insertMember") EXCEPT
                      !.createOrg = [id |-> row.id, ownerId |-> row.ownerId]]]
    /\ UNCHANGED <<membersToOrganizations, orgRequests, nextReqId>>

\* the role the owner's row is given
createOrgOwnerRole == "Admin"

\* db.insert(membersToOrganizations).values({ownerId, createOrg[0].id, "Admin"})
createOrgInsertMember(p) ==
    /\ proc[p].pc = "createOrg_insertMember"
    /\ LET orgId == proc[p].createOrg.id
           owner == proc[p].user
       IN  IF MemberInsertAllowed(organizations, membersToOrganizations,
                                  owner, orgId)
           THEN /\ membersToOrganizations' = membersToOrganizations \cup
                      {[memberId |-> owner, organizationId |-> orgId,
                        role |-> createOrgOwnerRole]}
                /\ proc' = [proc EXCEPT ![p] = Finish(proc[p], "ok")]
           ELSE /\ UNCHANGED membersToOrganizations
                /\ proc' = [proc EXCEPT ![p] =
                       Finish(proc[p], "ConstraintViolation")]
    /\ UNCHANGED <<organizations, orgRequests, nextOrgId, nextReqId>>

(* ----------------------- updateOrgNameMutation ------------------------ *)

updateOrgNameMutation(p, u, name) ==
    /\ CanBegin(p)
    /\ \E org \in CurrentOrgs(organizations) :
          LET c == Call("updateOrgName", u, [name |-> name], org)
          IN  proc' = [proc EXCEPT ![p] =
                  IF updateOrgNameSchema(name)
                  THEN Goto(c, "updateOrgName_findMemToOrg")
                  ELSE Finish(c, "ValidationError")]
    /\ UNCHANGED store

updateOrgNameFindMemToOrg(p) ==
    /\ proc[p].pc = "updateOrgName_findMemToOrg"
    /\ proc' = [proc EXCEPT ![p] =
          IF updateOrgNameAllowed(proc[p].currentOrg, proc[p].user,
                                  membersToOrganizations)
          THEN Goto(proc[p], "updateOrgName_update")
          ELSE Finish(proc[p], "NotAuthorized")]
    /\ UNCHANGED store

\* mutant: the update has no where clause
updateOrgNameSet_NoWhere(orgs, orgId, name) ==
    {[o EXCEPT !.name = name] : o \in orgs}

\* db.update(organizations).set({name}).where(id = currentOrg.id)
updateOrgNameSet(orgs, orgId, name) ==
    {IF o.id = orgId THEN [o EXCEPT !.name = name] ELSE o : o \in orgs}

updateOrgNameUpdate(p) ==
    /\ proc[p].pc = "updateOrgName_update"
    /\ organizations' = updateOrgNameSet(organizations, proc[p].currentOrg.id,
                                         proc[p].args.name)
    /\ proc' = [proc EXCEPT ![p] = Finish(proc[p], "ok")]
    /\ UNCHANGED <<membersToOrganizations, orgRequests, nextOrgId, nextReqId>>

(* ----------------------- updateOrgImageMutation ----------------------- *)

updateOrgImageMutation(p, u, image) ==
    /\ CanBegin(p)
    /\ \E org \in CurrentOrgs(organizations) :
          LET c == Call("updateOrgImage", u, [image |-> image], org)
          IN  proc' = [proc EXCEPT ![p] =
                  IF updateOrgImageSchema(image)
                  THEN Goto(c, "updateOrgImage_findMemToOrg")
                  ELSE Finish(c, "ValidationError")]
    /\ UNCHANGED store

updateOrgImageFindMemToOrg(p) ==
    /\ proc[p].pc = "updateOrgImage_findMemToOrg"
    /\ proc' = [proc EXCEPT ![p] =
          IF updateOrgImageAllowed(proc[p].currentOrg, proc[p].user,
                                   membersToOrganizations)
          THEN Goto(proc[p], "updateOrgImage_update")
          ELSE Finish(proc[p], "NotAuthorized")]
    /\ UNCHANGED store

\* db.update(organizations).set({image}).where(id = currentOrg.id)
updateOrgImageSet(orgs, orgId, image) ==
    {IF o.id = orgId THEN [o EXCEPT !.image = image] ELSE o : o \in orgs}

updateOrgImageUpdate(p) ==
    /\ proc[p].pc = "updateOrgImage_update"
    /\ organizations' = updateOrgImageSet(organizations, proc[p].currentOrg.id,
                                          proc[p].args.image)
    /\ proc' = [proc EXCEPT ![p] = Finish(proc[p], "ok")]
    /\ UNCHANGED <<membersToOrganizations, orgRequests, nextOrgId, nextReqId>>

(* -------------------------- deleteOrgMutation ------------------------- *)

\* mutant: deletion asks for a privileged caller, as the other handlers do
deleteOrgMutation_Privileged(p, u) ==
    /\ CanBegin(p)
    /\ \E org \in CurrentOrgs(organizations) :
          LET c == Call("deleteOrg", u, NoArgs, org)
          IN  proc' = [proc EXCEPT ![p] =
                  IF IsOwner(org, u) \/ memToOrg(membersToOrganizations, u, org.id)
                  THEN Goto(c, "deleteOrg_delete")
                  ELSE Finish(c, "NotAuthorized")]
    /\ UNCHANGED store

deleteOrgMutation(p, u) ==
    /\ CanBegin(p)
    /\ \E org \in CurrentOrgs(organizations) :
          LET c == Call("deleteOrg", u, NoArgs, org)
          IN  proc' = [proc EXCEPT ![p] =
                  IF deleteOrgAllowed(org, u)
                  THEN Goto(c, "deleteOrg_delete")
                  ELSE Finish(c, "NotAuthorized")]
    /\ UNCHANGED store

\* mutant: the delete's where names the owner, not the organization
deleteOrgDelete_ByOwner(p) ==
    /\ proc[p].pc = "deleteOrg_delete"
    /\ LET gone == {o.id : o \in {x \in organizations :
                                      x.ownerId = proc[p].currentOrg.ownerId}}
       IN  /\ organizations' = {o \in organizations : o.id \notin gone}
           /\ membersToOrganizations' =
                  {m \in membersToOrganizations : m.organizationId \notin gone}
           /\ orgRequests' = {r \in orgRequests : r.organizationId \notin gone}
    /\ proc' = [proc EXCEPT ![p] = Finish(proc[p], "ok")]
    /\ UNCHANGED <<nextOrgId, nextReqId>>

\* db.delete(organizations).where(id = currentOrg.id)
deleteOrgDelete(p) ==
    /\ proc[p].pc = "deleteOrg_delete"
    /\ LET orgId == proc[p].currentOrg.id
       IN  /\ organizations' = {o \in organizations : o.id # orgId}
           /\ membersToOrganizations' =
                  CascadeMembers(membersToOrganizations, orgId)
           /\ orgRequests' = CascadeRequests(orgRequests, orgId)
    /\ proc' = [proc EXCEPT ![p] = Finish(proc[p], "ok")]
    /\ UNCHANGED <<nextOrgId, nextReqId>>

(* ----------------------- sendOrgRequestMutation ----------------------- *)

sendOrgRequestMutation(p, u, orgId) ==
    /\ CanBegin(p)
    /\ nextReqId <= MaxReqs \/ RequestConflict(orgRequests, orgId, u)
    /\ LET c == Call("sendOrgRequest", u, [orgId |-> orgId], NoOrg)
       IN  proc' = [proc EXCEPT ![p] =
               IF orgRequestSchema(orgId, u)
               THEN Goto(c, "sendOrgRequest_insert")
               ELSE Finish(c, "ValidationError")]
    /\ UNCHANGED store

\* mutant: the insert has no conflict clause, the unique pair throws
onConflictDoNothing_Missing(conflict) ==
    IF conflict THEN "ConstraintViolation" ELSE "insert"

\* .onConflictDoNothing(): a row in conflict is left as it is, without error
onConflictDoNothing(conflict) == IF conflict THEN "ok" ELSE "insert"

\* db.insert(orgRequests).values({organizationId, userId}).onConflictDoNothing()
sendOrgRequestInsert(p) ==
    /\ proc[p].pc = "sendOrgRequest_insert"
    /\ LET orgId == proc[p].args.orgId
           u     == proc[p].user
           todo  == IF ~RequestInsertAllowed(organizations, orgId)
                    THEN "ConstraintViolation"
                    ELSE onConflictDoNothing(
                             RequestConflict(orgRequests, orgId, u))
       IN  IF todo = "insert"
           THEN /\ nextReqId <= MaxReqs
                /\ orgRequests' = orgRequests \cup
                      {[id |-> nextReqId, userId |-> u,
                        organizationId |-> orgId]}
                /\ nextReqId' = nextReqId + 1
                /\ proc' = [proc EXCEPT ![p] = Finish(proc[p], "ok")]
           ELSE /\ UNCHANGED <<orgRequests, nextReqId>>
                /\ proc' = [proc EXCEPT ![p] = Finish(proc[p], todo)]
    /\ UNCHANGED <<organizations, membersToOrganizations, nextOrgId>>

(* ---------------------- acceptOrgRequestMutation ---------------------- *)

acceptOrgRequestMutation(p, u, requestId) ==
    /\ CanBegin(p)
    /\ \E org \in CurrentOrgs(organizations) :
          LET c == Call("acceptOrgRequest", u, [requestId |-> requestId], org)
          IN  proc' = [proc EXCEPT ![p] =
                  IF acceptOrgRequestSchema(requestId)
                  THEN Goto(c, "acceptOrgRequest_findMemToOrg")
                  ELSE Finish(c, "ValidationError")]
    /\ UNCHANGED store

acceptOrgRequestFindMemToOrg(p) ==
    /\ proc[p].pc = "acceptOrgRequest_findMemToOrg"
    /\ proc' = [proc EXCEPT ![p] =
          IF acceptOrgRequestAllowed(proc[p].currentOrg, proc[p].user,
                                     membersToOrganizations)
          THEN Goto(proc[p], "acceptOrgRequest_findRequest")
          ELSE Finish(proc[p], "NotAuthorized")]
    /\ UNCHANGED store

\* db.query.orgRequests.findFirst({where: id = requestId})
findRequest(reqs, requestId) ==
    IF \E r \in reqs : r.id = requestId
    THEN CHOOSE r \in reqs : r.id = requestId
    ELSE NoRequest

\* mutant: the handler does not test what findFirst returned
acceptOrgRequestFindRequest_NoTest(p) ==
    /\ proc[p].pc = "acceptOrgRequest_findRequest"
    /\ proc' = [proc EXCEPT ![p] =
          [Goto(proc[p], "acceptOrgRequest_insertMember") EXCEPT
              !.request = findRequest(orgRequests, proc[p].args.requestId)]]
    /\ UNCHANGED store

acceptOrgRequestFindRequest(p) ==
    /\ proc[p].pc = "acceptOrgRequest_findRequest"
    /\ LET request == findRequest(orgRequests, proc[p].args.requestId)
       IN  proc' = [proc EXCEPT ![p] =
               IF request = NoRequest
               THEN Finish(proc[p], "NotFound")
               ELSE [Goto(proc[p], "acceptOrgRequest_insertMember") EXCEPT
                        !.request = request]]
    /\ UNCHANGED store

\* mutant: the accepted member is given the role the owner's row is given
acceptOrgRequestNewMember_Admin(request, currentOrg) ==
    [memberId |-> request.userId, organizationId |-> currentOrg.id,
     role |-> "Admin"]

\* values({memberId: request.userId, organizationId: currentOrg.id})
acceptOrgRequestNewMember(request, currentOrg) ==
    [memberId |-> request.userId, organizationId |-> currentOrg.id,
     role |-> DefaultRole]

acceptOrgRequestInsertMember(p) ==
    /\ proc[p].pc = "acceptOrgRequest_insertMember"
    /\ LET row == acceptOrgRequestNewMember(proc[p].request, proc[p].currentOrg)
       IN  IF MemberInsertAllowed(organizations, membersToOrganizations,
                                  row.memberId, row.organizationId)
           THEN /\ membersToOrganizations' = membersToOrganizations \cup {row}
                /\ proc' = [proc EXCEPT ![p] =
                       Goto(proc[p], "acceptOrgRequest_deleteRequest")]
           ELSE /\ UNCHANGED membersToOrganizations
                /\ proc' = [proc EXCEPT ![p] =
                       Finish(proc[p], "ConstraintViolation")]
    /\ UNCHANGED <<organizations, orgRequests, nextOrgId, nextReqId>>

\* db.delete(orgRequests).where(id = requestId)
deleteRequest(reqs, requestId) == {r \in reqs : r.id # requestId}

acceptOrgRequestDeleteRequest(p) ==
    /\ proc[p].pc = "acceptOrgRequest_deleteRequest"
    /\ orgRequests' = deleteRequest(orgRequests, proc[p].args.requestId)
    /\ proc' = [proc EXCEPT ![p] = Finish(proc[p], "ok")]
    /\ UNCHANGED <<organizations, membersToOrganizations, nextOrgId, nextReqId>>

(* ---------------------- declineOrgRequestMutation --------------------- *)

declineOrgRequestMutation(p, u, requestId) ==
    /\ CanBegin(p)
    /\ \E org \in CurrentOrgs(organizations) :
          LET c == Call("declineOrgRequest", u, [requestId |-> requestId], org)
          IN  proc' = [proc EXCEPT ![p] =
                  IF declineOrgRequestSchema(requestId)
                  THEN Goto(c, "declineOrgRequest_findMemToOrg")
                  ELSE Finish(c, "ValidationError")]
    /\ UNCHANGED store

declineOrgRequestFindMemToOrg(p) ==
    /\ proc[p].pc = "declineOrgRequest_findMemToOrg"
    /\ proc' = [proc EXCEPT ![p] =
          IF declineOrgRequestAllowed(proc[p].currentOrg, proc[p].user,
                                      membersToOrganizations)
          THEN Goto(proc[p], "declineOrgRequest_delete")
          ELSE Finish(proc[p], "NotAuthorized")]
    /\ UNCHANGED store

\* mutant: decline looks the request up first, as accept does
declineOrgRequestDelete_MustExist(p) ==
    /\ proc[p].pc = "declineOrgRequest_delete"
    /\ IF \E r \in orgRequests : r.id = proc[p].args.requestId
       THEN /\ orgRequests' = deleteRequest(orgRequests, proc[p].args.requestId)
            /\ proc' = [proc EXCEPT ![p] = Finish(proc[p], "ok")]
       ELSE /\ UNCHANGED orgRequests
            /\ proc' = [proc EXCEPT ![p] = Finish(proc[p], "NotFound")]
    /\ UNCHANGED <<organizations, membersToOrganizations, nextOrgId, nextReqId>>

declineOrgRequestDelete(p) ==
    /\ proc[p].pc = "declineOrgRequest_delete"
    /\ orgRequests' = deleteRequest(orgRequests, proc[p].args.requestId)
    /\ proc' = [proc EXCEPT ![p] = Finish(proc[p], "ok")]
    /\ UNCHANGED <<organizations, membersToOrganizations, nextOrgId, nextReqId>>

(* ---------------------- updateMemberRoleMutation ---------------------- *)

updateMemberRoleMutation(p, u, memberId, role) ==
    /\ CanBegin(p)
    /\ \E org \in CurrentOrgs(organizations) :
          LET c == Call("updateMemberRole", u,
                        [memberId |-> memberId, role |-> role], org)
          IN  proc' = [proc EXCEPT ![p] =
                  IF updateMemberRoleSchema(memberId, role)
                  THEN Goto(c, "updateMemberRole_findMemToOrg")
                  ELSE Finish(c, "ValidationError")]
    /\ UNCHANGED store

updateMemberRoleFindMemToOrg(p) ==
    /\ proc[p].pc = "updateMemberRole_findMemToOrg"
    /\ proc' = [proc EXCEPT ![p] =
          IF updateMemberRoleAllowed(proc[p].currentOrg, proc[p].user,
                                     membersToOrganizations, proc[p].args.role)
          THEN Goto(proc[p], "updateMemberRole_update")
          ELSE Finish(proc[p], "NotAuthorized")]
    /\ UNCHANGED store

\* db.update(membersToOrganizations).set({role})
\*   .where(memberId = memberId and organizationId = currentOrg.id)
updateMemberRoleSet(m2o, memberId, orgId, role) ==
    {IF m.memberId = memberId /\ m.organizationId = orgId
     THEN [m EXCEPT !.role = role] ELSE m : m \in m2o}

updateMemberRoleUpdate(p) ==
    /\ proc[p].pc = "updateMemberRole_update"
    /\ membersToOrganizations' =
          updateMemberRoleSet(membersToOrganizations, proc[p].args.memberId,
                              proc[p].currentOrg.id, proc[p].args.role)
    /\ proc' = [proc EXCEPT ![p] = Finish(proc[p], "ok")]
    /\ UNCHANGED <<organizations, orgRequests, nextOrgId, nextReqId>>

(* ------------------------- removeUserMutation ------------------------- *)

removeUserMutation(p, u, userId) ==
    /\ CanBegin(p)
    /\ \E org \in CurrentOrgs(organizations) :
          LET c == Call("removeUser", u, [userId |-> userId], org)
          IN  proc' = [proc EXCEPT ![p] =
                  IF removeUserSchema(userId)
                  THEN Goto(c, "removeUser_findMemToOrg")
                  ELSE Finish(c, "ValidationError")]
    /\ UNCHANGED store

removeUserFindMemToOrg(p) ==
    /\ proc[p].pc = "removeUser_findMemToOrg"
    /\ proc' = [proc EXCEPT ![p] =
          IF removeUserAllowed(proc[p].currentOrg, proc[p].user,
                               membersToOrganizations)
          THEN Goto(proc[p], "removeUser_delete")
          ELSE Finish(proc[p], "NotAuthorized")]
    /\ UNCHANGED store

\* db.delete(membersToOrganizations)
\*   .where(memberId = userId and organizationId = currentOrg.id)
removeUserRows(m2o, userId, orgId) ==
    {m \in m2o : ~(m.memberId = userId /\ m.organizationId = orgId)}

removeUserDelete(p) ==
    /\ proc[p].pc = "removeUser_delete"
    /\ membersToOrganizations' =
          removeUserRows(membersToOrganizations, proc[p].args.userId,
                         proc[p].currentOrg.id)
    /\ proc' = [proc EXCEPT ![p] = Finish(proc[p], "ok")]
    /\ UNCHANGED <<organizations, orgRequests, nextOrgId, nextReqId>>

(* --------------------------- store failure ---------------------------- *)

\* The store call a handler is waiting on fails (connectivity): the handler
\* throws what the store threw, and nothing of the call is applied.
StoreFailure(p) ==
    /\ InFlight(p)
    /\ proc' = [proc EXCEPT ![p] = Finish(proc[p], "StoreFailure")]
    /\ UNCHANGED store

\* The response reaches the client and the handler's slot is free again.
Return(p) ==
    /\ proc[p].pc = "done"
    /\ proc' = [proc EXCEPT ![p] = Idle]
    /\ UNCHANGED store

(* ------------------------------- Next --------------------------------- *)

\* The names and images the clients of the membership workflow send.
WorkflowNames  == {Name2, Name3, Name51}
WorkflowImages == {i \in Images : i.rest # "//cdn.io/b.png"}

Begin(p, NameInputs, ImageInputs) ==
    \E u \in Users :
        \/ \E name \in NameInputs, image \in ImageInputs :
               createOrgMutation(p, u, name, image)
        \/ \E name \in NameInputs : updateOrgNameMutation(p, u, name)
        \/ \E image \in ImageInputs : updateOrgImageMutation(p, u, image)
        \/ deleteOrgMutation(p, u)
        \/ \E orgId \in OrgIdInputs : sendOrgRequestMutation(p, u, orgId)
        \/ \E requestId \in ReqIdInputs : acceptOrgRequestMutation(p, u, requestId)
        \/ \E requestId \in ReqIdInputs : declineOrgRequestMutation(p, u, requestId)
        \/ \E memberId \in Users, role \in RoleInputs :
               updateMemberRoleMutation(p, u, memberId, role)
        \/ \E userId \in UserIdInputs : removeUserMutation(p, u, userId)

Step(p) ==
    \/ createOrgInsertOrg(p)
    \/ createOrgInsertMember(p)
    \/ updateOrgNameFindMemToOrg(p)
    \/ updateOrgNameUpdate(p)
    \/ updateOrgImageFindMemToOrg(p)
    \/ updateOrgImageUpdate(p)
    \/ deleteOrgDelete(p)
    \/ sendOrgRequestInsert(p)
    \/ acceptOrgRequestFindMemToOrg(p)
    \/ acceptOrgRequestFindRequest(p)
    \/ acceptOrgRequestInsertMember(p)
    \/ acceptOrgRequestDeleteRequest(p)
    \/ declineOrgRequestFindMemToOrg(p)
    \/ declineOrgRequestDelete(p)
    \/ updateMemberRoleFindMemToOrg(p)
    \/ updateMemberRoleUpdate(p)
    \/ removeUserFindMemToOrg(p)
    \/ removeUserDelete(p)

Next ==
    \E p \in Procs :
        \/ Begin(p, WorkflowNames, WorkflowImages)
        \/ Step(p)
        \/ StoreFailure(p)
        \/ Return(p)

Spec == Init /\ [][Next]_vars

(* ------------------------ concurrent handlers ------------------------- *)

\* Two requests are served at once: their awaited store calls interleave.
\* A store call that fails leaves the store as a handler that has not yet
\* made the call does, so the calls of ConcSpec all go through.
ConcProcs == {1, 2}

\* the organizations created while two handlers run at once
ConcMaxOrgs == 1

ConcInit ==
    /\ organizations = {}
    /\ membersToOrganizations = {}
    /\ orgRequests = {}
    /\ nextOrgId = 1
    /\ nextReqId = 1
    /\ proc = [p \in ConcProcs |-> Idle]

\* The payloads the concurrent clients send pass validation.
ConcImages == {i \in WorkflowImages : UrlOk(i)}

ConcBegin(p) ==
    \E u \in Users :
        \/ \E image \in ConcImages :
               /\ nextOrgId + PendingOrgInserts <= ConcMaxOrgs
               /\ createOrgMutation(p, u, Name3, image)
        \/ updateOrgNameMutation(p, u, Name3)
        \/ \E image \in ConcImages : updateOrgImageMutation(p, u, image)
        \/ deleteOrgMutation(p, u)
        \/ \E orgId \in OrgIds : sendOrgRequestMutation(p, u, orgId)
        \/ \E requestId \in ReqIds : acceptOrgRequestMutation(p, u, requestId)
        \/ \E requestId \in ReqIds : declineOrgRequestMutation(p, u, requestId)
        \/ \E memberId \in Users, role \in Roles :
               updateMemberRoleMutation(p, u, memberId, role)
        \/ \E userId \in Users : removeUserMutation(p, u, userId)

ConcNext ==
    \E p \in ConcProcs :
        \/ ConcBegin(p)
        \/ Step(p)
        \/ Return(p)

ConcSpec == ConcInit /\ [][ConcNext]_vars

(* ----------------------- names and images at large -------------------- *)

\* One handler at a time, with every name and image of Names and Images
\* (the lengths 2, 3, 50 and 51; two URLs and a string that is none), around
\* one join request.
AttrMaxReqs == 1

AttrBegin(p) ==
    \E u \in Users :
        \/ \E name \in Names, image \in Images :
               createOrgMutation(p, u, name, image)
        \/ \E name \in Names : updateOrgNameMutation(p, u, name)
        \/ \E image \in Images : updateOrgImageMutation(p, u, image)
        \/ deleteOrgMutation(p, u)
        \/ \E orgId \in OrgIds :
               /\ nextReqId <= AttrMaxReqs
               /\ sendOrgRequestMutation(p, u, orgId)
        \/ \E requestId \in 1..AttrMaxReqs :
               acceptOrgRequestMutation(p, u, requestId)
        \/ \E requestId \in 1..AttrMaxReqs :
               declineOrgRequestMutation(p, u, requestId)
        \/ \E memberId \in Users, role \in Roles :
               updateMemberRoleMutation(p, u, memberId, role)
        \/ \E userId \in Users : removeUserMutation(p, u, userId)

AttrNext ==
    \E p \in Procs :
        \/ AttrBegin(p)
        \/ Step(p)
        \/ Return(p)

AttrSpec == Init /\ [][AttrNext]_vars

(* ============================== claims ================================ *)

HasRow(m2o, memberId, orgId, role) ==
    [memberId |-> memberId, organizationId |-> orgId, role |-> role] \in m2o

HasPair(m2o, memberId, orgId) ==
    \E m \in m2o : m.memberId = memberId /\ m.organizationId = orgId

\* C1: createOrganization is atomic towards readers: no state, the states
\* between the store steps of a create in flight included, shows an
\* Organization row whose owner's Admin Membership row is not inserted yet,
\* and no Membership row is without its Organization row.
C1_CreateIsAtomic ==
    /\ \A p \in Procs :
          proc[p].pc = "createOrg_insertMember" =>
              \/ ~OrgExists(organizations, proc[p].createOrg.id)
              \/ HasRow(membersToOrganizations, proc[p].user,
                        proc[p].createOrg.id, "Admin")
    /\ \A m \in membersToOrganizations :
          OrgExists(organizations, m.organizationId)

\* C2: acceptJoinRequest inserts the membership and deletes the request as
\* one unit: no state, the states between the store steps of an accept in
\* flight included, shows the membership the accept produced beside the
\* still live request, nor the request consumed without the membership.
C2_AcceptIsAtomic ==
    \A p \in Procs :
        /\ proc[p].pc = "acceptOrgRequest_deleteRequest" =>
              ~(/\ proc[p].request \in orgRequests
                /\ acceptOrgRequestNewMember(proc[p].request,
                       proc[p].currentOrg) \in membersToOrganizations)
        /\ (proc[p].pc = "done" /\ proc[p].op = "acceptOrgRequest"
                /\ proc[p].result = "ok") =>
              /\ proc[p].request \notin orgRequests
              /\ acceptOrgRequestNewMember(proc[p].request,
                     proc[p].currentOrg) \in membersToOrganizations

\* C3: when the store fails at the second write of createOrganization (the
\* Organization row is in) or of acceptJoinRequest (the Membership row is
\* in), the handler reports the failure and the store is as it was before
\* the operation: the Organization row is gone again, respectively the
\* Membership row is gone again while the request is still pending.
C3_FailureLeavesNoPartialState ==
    [][\A p \in Procs :
          /\ (/\ proc[p].pc = "createOrg_insertMember"
              /\ IsStoreFailure(proc'[p].result)) =>
                 ~OrgExists(organizations', proc[p].createOrg.id)
          /\ (/\ proc[p].pc = "acceptOrgRequest_deleteRequest"
              /\ IsStoreFailure(proc'[p].result)) =>
                 acceptOrgRequestNewMember(proc[p].request,
                     proc[p].currentOrg) \notin membersToOrganizations'
      ]_vars

\* isOwner || isAdmin, on the organization the handler resolved.
Privileged(org, userId, m2o) ==
    IsOwner(org, userId) \/ HasRow(m2o, userId, org.id, "Admin")

\* The handler p takes a step of its own.
Moves(p) == proc'[p] # proc[p]

\* The store call p waits on went through (it may still have been refused).
CallWentThrough(p) == Moves(p) /\ proc'[p].result # "StoreFailure"

PrivilegedOps == {"updateOrgName", "updateOrgImage", "updateMemberRole",
                  "removeUser", "acceptOrgRequest", "declineOrgRequest"}

AtAuthorization(p) ==
    /\ proc[p].op \in PrivilegedOps
    /\ proc[p].pc \in {"updateOrgName_findMemToOrg",
                       "updateOrgImage_findMemToOrg",
                       "updateMemberRole_findMemToOrg",
                       "removeUser_findMemToOrg",
                       "acceptOrgRequest_findMemToOrg",
                       "declineOrgRequest_findMemToOrg"}

\* C4: a caller who is neither the owner of the current organization nor an
\* Admin member of it gets NotAuthorized from rename, re-image,
\* changeMemberRole, removeMember, accept and decline (valid payload), and
\* no row of any table changes.  (When the authorization read itself does
\* not go through, the handler throws the store's failure instead.)
C4_UnprivilegedIsRefused ==
    [][\A p \in Procs :
          (/\ AtAuthorization(p)
           /\ ~Privileged(proc[p].currentOrg, proc[p].user,
                          membersToOrganizations)
           /\ Moves(p)) =>
              /\ proc'[p].pc = "done"
              /\ proc'[p].result \in {"NotAuthorized", "StoreFailure"}
              /\ CallWentThrough(p) => proc'[p].result = "NotAuthorized"
              /\ store' = store
      ]_vars

C4_Witness ==
    \E p \in Procs :
        /\ proc[p].pc = "done"
        /\ proc[p].op \in PrivilegedOps
        /\ proc[p].result = "NotAuthorized"
        /\ ~IsOwner(proc[p].currentOrg, proc[p].user)
        /\ HasRow(membersToOrganizations, proc[p].user,
                  proc[p].currentOrg.id, "Member")

\* C5: an Organization row disappears only in a deleteOrganization of its
\* owner; deleteOrganization by anyone else, an Admin member included, ends
\* NotAuthorized with every row of every table still there.
C5_OnlyOwnerDeletes ==
    [][/\ \A o \in organizations :
             ~OrgExists(organizations', o.id) =>
                 \E p \in Procs : /\ proc[p].pc = "deleteOrg_delete"
                                  /\ proc[p].user = o.ownerId
                                  /\ proc[p].currentOrg.id = o.id
                                  /\ proc'[p].result = "ok"
       /\ \A p \in Procs :
             (/\ proc[p].pc = "idle"
              /\ proc'[p].op = "deleteOrg"
              /\ ~IsOwner(proc'[p].currentOrg, proc'[p].user)) =>
                 /\ proc'[p].pc = "done"
                 /\ proc'[p].result = "NotAuthorized"
                 /\ store' = store
      ]_vars

C5_Witness ==
    \E p \in Procs :
        /\ proc[p].pc = "done"
        /\ proc[p].op = "deleteOrg"
        /\ proc[p].result = "NotAuthorized"
        /\ HasRow(membersToOrganizations, proc[p].user,
                  proc[p].currentOrg.id, "Admin")
        /\ OrgExists(organizations, proc[p].currentOrg.id)

\* C6: changeMemberRole to Admin goes through only for the owner of the
\* current organization, anyone else (an Admin included) gets NotAuthorized
\* and no role changes; to Member it goes through for every privileged
\* caller.  So a Membership row with role Admin is only ever written by
\* createOrganization, for the owner, or by a changeMemberRole of the owner.
C6_OnlyOwnerMintsAdmins ==
    [][/\ \A p \in Procs :
             (/\ proc[p].pc = "updateMemberRole_findMemToOrg"
              /\ CallWentThrough(p)) =>
                 IF IF proc[p].args.role = "Admin"
                    THEN IsOwner(proc[p].currentOrg, proc[p].user)
                    ELSE Privileged(proc[p].currentOrg, proc[p].user,
                                    membersToOrganizations)
                 THEN proc'[p].pc = "updateMemberRole_update"
                 ELSE /\ proc'[p].pc = "done"
                      /\ proc'[p].result = "NotAuthorized"
                      /\ store' = store
       /\ \A m \in membersToOrganizations' \ membersToOrganizations :
             m.role = "Admin" =>
                 \E p \in Procs :
                     \/ /\ proc[p].pc = "createOrg_insertMember"
                        /\ m.memberId = proc[p].user
                        /\ m.organizationId = proc[p].createOrg.id
                        /\ proc[p].createOrg.ownerId = proc[p].user
                     \/ /\ proc[p].pc = "updateMemberRole_update"
                        /\ m.organizationId = proc[p].currentOrg.id
                        /\ \E o \in organizations :
                               o.id = m.organizationId /\ o.ownerId = proc[p].user
      ]_vars

C6_Witness ==
    \E p \in Procs :
        /\ proc[p].pc = "done"
        /\ proc[p].op = "updateMemberRole"
        /\ proc[p].args.role = "Admin"
        /\ proc[p].result = "NotAuthorized"
        /\ ~IsOwner(proc[p].currentOrg, proc[p].user)
        /\ HasRow(membersToOrganizations, proc[p].user,
                  proc[p].currentOrg.id, "Admin")

RequestsOf(reqs, orgId, userId) ==
    {r \in reqs : r.organizationId = orgId /\ r.userId = userId}

C8_AcceptEffect ==
    [][\A p \in Procs :
          (proc[p].op = "acceptOrgRequest" /\ InFlight(p) /\ Moves(p)) =>
             IF /\ proc[p].pc = "acceptOrgRequest_insertMember"
                /\ proc'[p].pc = "acceptOrgRequest_deleteRequest"
             THEN /\ membersToOrganizations \subseteq membersToOrganizations'
                  /\ \E m \in membersToOrganizations' :
                        /\ membersToOrganizations' \ membersToOrganizations = {m}
                        /\ m.memberId = proc[p].request.userId
                        /\ m.role = "Member"
                  /\ proc[p].request \in orgRequests
                  /\ UNCHANGED <<organizations, orgRequests>>
             ELSE IF /\ proc[p].pc = "acceptOrgRequest_deleteRequest"
                     /\ proc'[p].result = "ok"
             THEN /\ proc[p].request \in orgRequests
                  /\ orgRequests' = orgRequests \ {proc[p].request}
                  /\ UNCHANGED <<organizations, membersToOrganizations>>
             ELSE /\ proc'[p].result # "ok"
                  /\ store' = store
      ]_vars

C8_Witness ==
    \E p \in Procs :
        /\ proc[p].pc = "done"
        /\ proc[p].op = "acceptOrgRequest"
        /\ proc[p].result = "ok"
        /\ proc[p].request \notin orgRequests
        /\ orgRequests # {}
        /\ HasRow(membersToOrganizations, proc[p].request.userId,
                  proc[p].currentOrg.id, "Member")

\* C9: accept by a privileged caller of a request id that no row has ends
\* NotFound, which is not NotAuthorized; it inserts no Membership row and
\* deletes nothing.
C9_AcceptOfMissingRequest ==
    [][\A p \in Procs :
          (/\ proc[p].pc = "acceptOrgRequest_findRequest"
           /\ ~\E r \in orgRequests : r.id = proc[p].args.requestId
           /\ CallWentThrough(p)) =>
              /\ proc'[p].pc = "done"
              /\ proc'[p].result = "NotFound"
              /\ store' = store
      ]_vars

C9_Witness ==
    \E p \in Procs :
        /\ proc[p].pc = "done"
        /\ proc[p].op = "acceptOrgRequest"
        /\ proc[p].result = "NotFound"
        /\ Privileged(proc[p].currentOrg, proc[p].user, membersToOrganizations)
        /\ membersToOrganizations # {}

\* C10: decline by a privileged caller succeeds whether or not a row has the
\* request id: afterwards no row has it, every other JoinRequest row and
\* every Membership row is as before (a second decline does what the first
\* did, and there is no NotFound).
C10_DeclineAlwaysSucceeds ==
    [][\A p \in Procs :
          /\ (/\ proc[p].pc = "declineOrgRequest_findMemToOrg"
              /\ Privileged(proc[p].currentOrg, proc[p].user,
                            membersToOrganizations)
              /\ CallWentThrough(p)) =>
                 /\ proc'[p].pc = "declineOrgRequest_delete"
                 /\ store' = store
          /\ (/\ proc[p].pc = "declineOrgRequest_delete"
              /\ CallWentThrough(p)) =>
                 /\ proc'[p].result = "ok"
                 /\ orgRequests' =
                       {r \in orgRequests : r.id # proc[p].args.requestId}
                 /\ UNCHANGED <<organizations, membersToOrganizations>>
      ]_vars

\* the declined id is one the store has not handed out
C10_Witness ==
    \E p \in Procs :
        /\ proc[p].pc = "done"
        /\ proc[p].op = "declineOrgRequest"
        /\ proc[p].result = "ok"
        /\ proc[p].args.requestId >= nextReqId
        /\ orgRequests # {}

(* ------------------------ claims, continued --------------------------- *)

\* C12: when the owner's deleteOrganization goes through, the Organization
\* row is gone, no Membership row and no JoinRequest row refers to that
\* organization any more, and the rows of every other organization, in all
\* three tables, are as they were.
C12_DeleteCascades ==
    [][\A p \in Procs :
          (proc[p].pc = "deleteOrg_delete" /\ CallWentThrough(p)) =>
             LET orgId == proc[p].currentOrg.id
             IN  /\ IsOwner(proc[p].currentOrg, proc[p].user)
                 /\ proc'[p].result = "ok"
                 /\ ~OrgExists(organizations', orgId)
                 /\ \A m \in membersToOrganizations' : m.organizationId # orgId
                 /\ \A r \in orgRequests' : r.organizationId # orgId
                 /\ organizations' = {o \in organizations : o.id # orgId}
                 /\ membersToOrganizations' =
                        {m \in membersToOrganizations : m.organizationId # orgId}
                 /\ orgRequests' =
                        {r \in orgRequests : r.organizationId # orgId}
      ]_vars

\* the delete went through and the caller's other organization, with its
\* membership and a request addressed to it, is still there
C12_Witness ==
    \E p \in Procs :
        /\ proc[p].pc = "done"
        /\ proc[p].op = "deleteOrg"
        /\ proc[p].result = "ok"
        /\ ~OrgExists(organizations, proc[p].currentOrg.id)
        /\ \E o \in organizations :
               /\ o.ownerId = proc[p].user
               /\ HasPair(membersToOrganizations, o.ownerId, o.id)
               /\ \E r \in orgRequests : r.organizationId = o.id

\* C13: createOrganization and renameOrganization called with a name shorter
\* than 3 or longer than 50 end at once with ValidationError: the handler
\* reaches neither its authorization read nor a store write, and no table
\* changes, so no Organization row ever holds such a name.  A name of length
\* 3 to 50 passes the validation of the name: rename goes on to its
\* authorization read, create (its image a URL) to its insert.
C13_NameLengthValidated ==
    [][/\ \A p \in Procs :
             (/\ proc[p].pc = "idle"
              /\ proc'[p].op \in {"createOrg", "updateOrgName"}) =>
                 LET n == Len(proc'[p].args.name)
                 IN  IF n < 3 \/ n > 50
                     THEN /\ proc'[p].pc = "done"
                          /\ proc'[p].result = "ValidationError"
                          /\ store' = store
                     ELSE IF proc'[p].op = "updateOrgName"
                          THEN proc'[p].pc = "updateOrgName_findMemToOrg"
                          ELSE UrlOk(proc'[p].args.image) =>
                                   proc'[p].pc = "createOrg_insertOrg"
       /\ \A p \in Procs :
             (/\ proc'[p].op \in {"createOrg", "updateOrgName"}
              /\ proc'[p].pc # "done") =>
                 /\ Len(proc'[p].args.name) >= 3
                 /\ Len(proc'[p].args.name) <= 50
       /\ \A o \in organizations' : Len(o.name) >= 3 /\ Len(o.name) <= 50
      ]_vars

\* the owner's rename to a name of 51 characters was refused, and the name
\* of the organization has the 50 characters an earlier call gave it
C13_Witness ==
    \E p \in Procs :
        /\ proc[p].pc = "done"
        /\ proc[p].op = "updateOrgName"
        /\ Len(proc[p].args.name) = 51
        /\ proc[p].result = "ValidationError"
        /\ IsOwner(proc[p].currentOrg, proc[p].user)
        /\ \E o \in organizations :
               o.id = proc[p].currentOrg.id /\ Len(o.name) = 50

\* The organization rows after a step, against those before it: the same
\* ids with the same owners, and only the row `orgId` differs, in that its
\* field `field` holds `value`.
SameButFor(orgs, orgs2, orgId, field, value) ==
    /\ \A o2 \in orgs2 : \E o \in orgs : o.id = o2.id
    /\ \A o \in orgs :
          \E o2 \in orgs2 :
              /\ o2.id = o.id
              /\ o2.ownerId = o.ownerId
              /\ IF o.id = orgId
                 THEN /\ o2[field] = value
                      /\ \A f \in {"name", "image"} \ {field} : o2[f] = o[f]
                 ELSE o2 = o

\* C14: a rename that goes through sets the name of the caller's current
\* organization and nothing else, a re-image its image and nothing else: the
\* row's owner and other field, every other Organization row, and all
\* Membership and JoinRequest rows are as before.  No step of any handler
\* changes the owner of an organization that exists before and after it.
C14_RenameReimageFrame ==
    [][/\ \A p \in Procs :
             (proc[p].pc = "updateOrgName_update" /\ proc'[p].result = "ok") =>
                 /\ SameButFor(organizations, organizations',
                               proc[p].currentOrg.id, "name", proc[p].args.name)
                 /\ UNCHANGED <<membersToOrganizations, orgRequests>>
       /\ \A p \in Procs :
             (proc[p].pc = "updateOrgImage_update" /\ proc'[p].result = "ok") =>
                 /\ SameButFor(organizations, organizations',
                               proc[p].currentOrg.id, "image", proc[p].args.image)
                 /\ UNCHANGED <<membersToOrganizations, orgRequests>>
       /\ \A o \in organizations, o2 \in organizations' :
             o.id = o2.id => o.ownerId = o2.ownerId
      ]_vars

\* an Admin who is not the owner renamed the organization to the name of 50
\* characters; the other organization has its name of 3 characters, and
\* the two rows have different images
C14_Witness ==
    \E p \in Procs :
        /\ proc[p].pc = "done"
        /\ proc[p].op = "updateOrgName"
        /\ proc[p].result = "ok"
        /\ ~IsOwner(proc[p].currentOrg, proc[p].user)
        /\ proc[p].args.name = Name50
        /\ \E o, o2 \in organizations :
               /\ o.id = proc[p].currentOrg.id
               /\ o.name = Name50
               /\ o2.id # o.id
               /\ o2.name = Name3
               /\ o2.image # o.image

\* C15: once the owner of an organization has a Membership row for it (its
\* creation has completed), the owner has one in every later state in which
\* the organization exists, whatever handlers run, a removeMember or a
\* changeMemberRole that targets the owner included.
C15_OwnerKeepsMembership ==
    [][\A o \in organizations :
          (/\ OrgExists(organizations', o.id)
           /\ HasPair(membersToOrganizations, o.ownerId, o.id)) =>
              HasPair(membersToOrganizations', o.ownerId, o.id)
      ]_vars

\* C16: a JoinRequest row is only ever inserted for a caller who, when the
\* insert runs, has no Membership row in the organization and does not own
\* it.
C16_OnlyNonMembersRequest ==
    [][\A r \in orgRequests' \ orgRequests :
          /\ ~HasPair(membersToOrganizations, r.userId, r.organizationId)
          /\ ~\E o \in organizations :
                 o.id = r.organizationId /\ o.ownerId = r.userId
      ]_vars

\* Every organization has its owner's Admin row: no create was cut short
\* and no owner's row was removed or demoted.
OwnersAreAdmins ==
    \A o \in organizations :
        HasRow(membersToOrganizations, o.ownerId, o.id, "Admin")

\* C17: the Membership row an accept inserts is for the applicant and the
\* organization of the accepted JoinRequest, whichever organization is the
\* accepting caller's current one: nobody becomes, by an accept, a member of
\* an organization they have no pending request to.  (Stated for the stores
\* in which every organization has its owner's Admin row.)
C17_MembershipForRequestedOrg ==
    [][\A p \in Procs :
          (proc[p].pc = "acceptOrgRequest_insertMember" /\ OwnersAreAdmins) =>
             \A m \in membersToOrganizations' \ membersToOrganizations :
                 /\ m.memberId = proc[p].request.userId
                 /\ m.organizationId = proc[p].request.organizationId
                 /\ RequestConflict(orgRequests, m.organizationId, m.memberId)
      ]_vars

\* C20: a JoinRequest row deleted by a step of acceptJoinRequest or of
\* declineJoinRequest is addressed to an organization in which the caller is
\* privileged: a caller privileged in organization A alone deletes no
\* request addressed to another organization B.  (Stated for the stores in
\* which every organization has its owner's Admin row.)
C20_TenantIsolation ==
    [][\A p \in Procs :
          (/\ proc[p].op \in {"acceptOrgRequest", "declineOrgRequest"}
           /\ Moves(p)
           /\ OwnersAreAdmins) =>
              \A r \in orgRequests \ orgRequests' :
                  \E o \in organizations :
                      /\ o.id = r.organizationId
                      /\ Privileged(o, proc[p].user, membersToOrganizations)
      ]_vars

(* ------------------- claims on concurrent handlers -------------------- *)

\* C11: no state holds two Membership rows for one (organization, member)
\* pair, whatever the handlers that run and however their store calls
\* interleave.  An accept whose applicant is a member of the current
\* organization already (a member before, or made one by a concurrent accept
\* of the same request) has its insert refused by the store: the handler
\* throws what the store threw and the table is as it was.
C11_OneMembershipPerPair ==
    [][/\ \A m1, m2 \in membersToOrganizations' :
             (m1.memberId = m2.memberId
                 /\ m1.organizationId = m2.organizationId) => m1 = m2
       /\ \A p \in DOMAIN proc :
             (/\ proc[p].pc \in {"acceptOrgRequest_insertMember",
                                 "createOrg_insertMember"}
              /\ Moves(p)
              /\ LET row == IF proc[p].op = "createOrg"
                            THEN [memberId |-> proc[p].user,
                                  organizationId |-> proc[p].createOrg.id]
                            ELSE [memberId |-> proc[p].request.userId,
                                  organizationId |-> proc[p].currentOrg.id]
                 IN  HasPair(membersToOrganizations, row.memberId,
                             row.organizationId)) =>
                 /\ membersToOrganizations' = membersToOrganizations
                 /\ proc'[p].pc = "done"
                 /\ proc'[p].result = "ConstraintViolation"
      ]_vars

\* two accepts of one request ran at once: one went through, the other's
\* insert was refused, and the applicant has the one row
C11_Witness ==
    \E p, q \in DOMAIN proc :
        /\ p # q
        /\ proc[p].op = "acceptOrgRequest" /\ proc[q].op = "acceptOrgRequest"
        /\ proc[p].args.requestId = proc[q].args.requestId
        /\ proc[p].pc = "done" /\ proc[p].result = "ok"
        /\ proc[q].pc = "done" /\ proc[q].result = "ConstraintViolation"
        /\ proc[p].request = proc[q].request
        /\ HasRow(membersToOrganizations, proc[p].request.userId,
                  proc[p].currentOrg.id, "Member")

\* C18: a JoinRequest has one outcome, also when an accept and a decline,
\* or two accepts, of one request id run at once: an accept inserts its
\* Membership row only while the request it read is still pending (no decline
\* and no other accept has consumed it), and an accept that reports success
\* is the one whose delete consumed the request.  (Stated while the
\* request's organization exists: a request that went with its organization
\* was neither accepted nor declined.)
C18_OneTerminalOutcome ==
    [][\A p \in DOMAIN proc :
          (/\ proc[p].op = "acceptOrgRequest"
           /\ Moves(p)
           /\ OrgExists(organizations, proc[p].request.organizationId)) =>
              /\ (/\ proc[p].pc = "acceptOrgRequest_insertMember"
                  /\ membersToOrganizations' # membersToOrganizations) =>
                     proc[p].request \in orgRequests
              /\ (/\ proc[p].pc = "acceptOrgRequest_deleteRequest"
                  /\ proc'[p].result = "ok") =>
                     proc[p].request \in orgRequests
      ]_vars

\* the store writes of the six handlers that ask for a privileged caller
PrivilegedWrites == {"updateOrgName_update", "updateOrgImage_update",
                     "acceptOrgRequest_insertMember",
                     "acceptOrgRequest_deleteRequest",
                     "declineOrgRequest_delete",
                     "updateMemberRole_update", "removeUser_delete"}

\* C19: a write of rename, re-image, accept, decline, changeMemberRole or
\* removeMember that changes a table runs in a state in which the caller's
\* current organization exists and the caller is its owner or an Admin
\* member of it: a caller demoted or removed after the authorization read
\* of the call does not get the write applied.
C19_WritesWhilePrivileged ==
    [][\A p \in DOMAIN proc :
          (/\ proc[p].pc \in PrivilegedWrites
           /\ Moves(p)
           /\ store' # store) =>
              \E o \in organizations :
                  /\ o.id = proc[p].currentOrg.id
                  /\ Privileged(o, proc[p].user, membersToOrganizations)
      ]_vars

==========================================================================
